---- MODULE Spec2Model ----
(***************************************************************************)
(* Model of the potato-company web application: the public form handlers   *)
(* (main/views.py, main/forms.py, main/models.py) and the internal ledger  *)
(* (records/models.py, records/admin.py).                                  *)
(*                                                                         *)
(* Text values are sequences of one-character strings, so that splitting,  *)
(* stripping, parsing and formatting are computed as the code computes     *)
(* them.                                                                   *)
(***************************************************************************)
EXTENDS Integers, Sequences, FiniteSets, TLC

VARIABLES
    sales,        \* Sale table: id -> [invoice_number, payment_status]
    nextSaleId,   \* auto-increment primary key of the Sale table
    issued,       \* history: numbers generated by Sale.save, in order
    saleResult,   \* outcome of the last Sale operation
    savers,       \* concurrent Sale.save calls: worker -> [pc, number]
    batches,      \* SeedBatch table: id -> [variety]
    nextBatchId,  \* auto-increment primary key of the SeedBatch table
    plantings,    \* PlantingRecord table: id -> [field_name, seed_batch,
                  \*   expected_yield_kg, actual_yield_kg]
    nextPlantingId, \* auto-increment primary key of the PlantingRecord table
    ledgerResult, \* the last ledger operation
    contacts,     \* ContactMessage table, in insertion order
    quotes,       \* QuoteRequest table, in insertion order
    newsletters,  \* Newsletter table: id -> [email, interests, is_active]
    nextNewsletterId, \* auto-increment primary key of the Newsletter table
    http,         \* the request being answered: its input, effects and response
    signups,      \* concurrent newsletter signups: worker -> its request and position
    inventory,    \* Inventory table: id -> [quantity_kg], in hundredths of a kilogram
    nextInventoryId, \* auto-increment primary key of the Inventory table
    stockResult   \* the last Inventory operation

saleVars == <<sales, nextSaleId, issued, saleResult, savers>>

ledgerVars == <<batches, nextBatchId, plantings, nextPlantingId, ledgerResult>>

siteVars == <<contacts, quotes, newsletters, nextNewsletterId, http, signups>>

stockVars == <<inventory, nextInventoryId, stockResult>>

vars == <<sales, nextSaleId, issued, saleResult, savers,
          batches, nextBatchId, plantings, nextPlantingId, ledgerResult,
          contacts, quotes, newsletters, nextNewsletterId, http, signups,
          inventory, nextInventoryId, stockResult>>

(***************************************************************************)
(* Bounds                                                                  *)
(***************************************************************************)
MaxSales == 3        \* Sale rows ever created in SpecSale
MaxSeqSales == 11    \* Sale rows created in the creation-only run SpecSaleSeq
MaxDelSales == 4     \* Sale rows created in the create-and-delete run SpecSaleDel
MaxBatches == 2      \* SeedBatch rows ever created
MaxPlantings == 2    \* PlantingRecord rows ever created
MaxContacts == 1     \* ContactMessage rows stored
MaxQuotes == 1       \* QuoteRequest rows stored
MaxWords == 4        \* words in a generated contact message
MaxWordLen == 4      \* letters in each word of a generated contact message
MaxPhoneDigits == 17 \* digits in a generated phone number
MaxYield == 12       \* greatest yield entered, in hundredths of a kilogram
MaxInventory == 2    \* Inventory rows ever created
MaxStockDelta == 2   \* quantities entered lie this many hundredths around 50 kg

(***************************************************************************)
(* Text helpers                                                            *)
(***************************************************************************)
Empty == << >>

DigitChars == <<"0", "1", "2", "3", "4", "5", "6", "7", "8", "9">>

Digit == {DigitChars[i] : i \in 1..10}

DigitVal(c) == CHOOSE d \in 0..9 : DigitChars[d + 1] = c

RECURSIVE DecDigits(_)
DecDigits(n) ==
    IF n < 10 THEN <<DigitChars[n + 1]>>
    ELSE Append(DecDigits(n \div 10), DigitChars[(n % 10) + 1])

RECURSIVE ZeroPad(_, _)
ZeroPad(s, width) == IF Len(s) >= width THEN s ELSE ZeroPad(<<"0">> \o s, width)

\* f"INV-{n:05d}": minimum width 5, zero filled, never truncated
FormatInvoiceBad(n) == <<"I", "N", "V", "-">> \o ZeroPad(DecDigits(n), 4)

FormatInvoice(n) == <<"I", "N", "V", "-">> \o ZeroPad(DecDigits(n), 5)

\* s.split('-')[-1]: the text after the last '-', the whole text if there is none
RECURSIVE LastSegment(_)
LastSegment(s) ==
    IF s = Empty THEN Empty
    ELSE IF s[Len(s)] = "-" THEN Empty
    ELSE Append(LastSegment(SubSeq(s, 1, Len(s) - 1)), s[Len(s)])

\* int(text) succeeds on a non-empty run of decimal digits
IsIntLiteral(s) == s # Empty /\ \A i \in 1..Len(s) : s[i] \in Digit

RECURSIVE ParseInt(_)
ParseInt(s) ==
    IF s = Empty THEN 0
    ELSE 10 * ParseInt(SubSeq(s, 1, Len(s) - 1)) + DigitVal(s[Len(s)])

IsSpace(c) == c \in {" ", "\t", "\n"}

LowerChars == <<"a", "b", "c", "d", "e", "f", "g", "h", "i", "j", "k", "l", "m",
                "n", "o", "p", "q", "r", "s", "t", "u", "v", "w", "x", "y", "z">>

UpperChars == <<"A", "B", "C", "D", "E", "F", "G", "H", "I", "J", "K", "L", "M",
                "N", "O", "P", "Q", "R", "S", "T", "U", "V", "W", "X", "Y", "Z">>

IsLower(c) == \E i \in 1..26 : LowerChars[i] = c

IsUpper(c) == \E i \in 1..26 : UpperChars[i] = c

IsAlpha(c) == IsLower(c) \/ IsUpper(c)

ToUpper(c) == IF IsLower(c) THEN UpperChars[CHOOSE i \in 1..26 : LowerChars[i] = c] ELSE c

ToLower(c) == IF IsUpper(c) THEN LowerChars[CHOOSE i \in 1..26 : UpperChars[i] = c] ELSE c

\* the absent value: a key the request does not carry (Python None)
None == <<"None">>

\* data.get(name)
Get(data, name) == IF name \in DOMAIN data THEN data[name] ELSE None

RECURSIVE LStrip(_)
LStrip(s) == IF s # Empty /\ IsSpace(s[1]) THEN LStrip(Tail(s)) ELSE s

RECURSIVE RStrip(_)
RStrip(s) ==
    IF s # Empty /\ IsSpace(s[Len(s)]) THEN RStrip(SubSeq(s, 1, Len(s) - 1)) ELSE s

\* str.strip()
Strip(s) == RStrip(LStrip(s))

\* the first whitespace-delimited word of a text that starts with a word
RECURSIVE FirstWord(_)
FirstWord(s) ==
    IF s = Empty \/ IsSpace(s[1]) THEN Empty ELSE <<s[1]>> \o FirstWord(Tail(s))

\* str.split(): the whitespace-separated words, none of them empty
RECURSIVE Split(_)
Split(s) ==
    LET t == LStrip(s)
    IN  IF t = Empty THEN << >>
        ELSE LET w == FirstWord(t)
             IN  <<w>> \o Split(SubSeq(t, Len(w) + 1, Len(t)))

\* str.title(): a letter that follows a letter is lowered, any other letter raised
RECURSIVE TitleFrom(_, _)
TitleFrom(s, afterLetter) ==
    IF s = Empty THEN Empty
    ELSE <<IF afterLetter THEN ToLower(s[1]) ELSE ToUpper(s[1])>>
            \o TitleFrom(Tail(s), IsAlpha(s[1]))

Title(s) == TitleFrom(s, FALSE)

(***************************************************************************)
(* main/forms.py: field validation                                         *)
(***************************************************************************)
\* CharField.to_python: an absent value is the empty text, whitespace is stripped
CharToPython(raw) == IF raw = None THEN Empty ELSE Strip(raw)

\* CharField.clean for a declared field: "required", "max_length",
\* "min_length" (0: none) and the field's own validator; validators are skipped
\* on an empty value
CharFieldValid(raw, required, maxLen, minLen, extraOk) ==
    LET v == CharToPython(raw)
    IN  IF v = Empty THEN ~required
        ELSE /\ (maxLen > 0 => Len(v) <= maxLen)
             /\ Len(v) >= minLen
             /\ extraOk

AllDigits(s) == \A i \in 1..Len(s) : s[i] \in Digit

\* phone_regex: ^\+?1?\d{9,15}$
PhoneRegexNoCountry(s) ==
    LET a == IF s # Empty /\ s[1] = "+" THEN Tail(s) ELSE s
    IN  AllDigits(a) /\ Len(a) >= 9 /\ Len(a) <= 15

PhoneRegexMatch(s) ==
    LET a == IF s # Empty /\ s[1] = "+" THEN Tail(s) ELSE s
        b == IF a # Empty /\ a[1] = "1" THEN Tail(a) ELSE a
    IN  \/ AllDigits(a) /\ Len(a) >= 9 /\ Len(a) <= 15
        \/ AllDigits(b) /\ Len(b) >= 9 /\ Len(b) <= 15

Count(s, c) == Cardinality({i \in 1..Len(s) : s[i] = c})

LastIndexOf(s, c) == CHOOSE i \in 1..Len(s) : s[i] = c /\ \A j \in (i + 1)..Len(s) : s[j] # c

IsAlnum(c) == IsAlpha(c) \/ c \in Digit

\* one dot-separated label of a host name: letters, digits and inner hyphens
LabelOk(l) ==
    /\ l # Empty
    /\ \A i \in 1..Len(l) : IsAlnum(l[i]) \/ l[i] = "-"
    /\ l[1] # "-" /\ l[Len(l)] # "-"

RECURSIVE SplitOn(_, _)
SplitOn(s, c) ==
    IF Count(s, c) = 0 THEN <<s>>
    ELSE LET i == CHOOSE k \in 1..Len(s) : s[k] = c /\ \A j \in 1..(k - 1) : s[j] # c
         IN  <<SubSeq(s, 1, i - 1)>> \o SplitOn(SubSeq(s, i + 1, Len(s)), c)

\* the punctuation of the validator's user-part pattern (the apostrophe and the
\* backquote, which it also admits, are left out of the alphabet)
AtomChar(c) == IsAlnum(c) \/ c \in {"!", "#", "$", "%", "&", "*", "+", "/", "=",
                                    "?", "^", "_", "{", "|", "}", "~", "-"}

\* EmailValidator: user@domain, the user part dot-separated atoms, the domain
\* at least two labels the last of which has two characters or more
EmailValid(v) ==
    /\ Count(v, "@") >= 1
    /\ LET at == LastIndexOf(v, "@")
           user == SplitOn(SubSeq(v, 1, at - 1), ".")
           dom == SplitOn(SubSeq(v, at + 1, Len(v)), ".")
       IN  /\ \A i \in 1..Len(user) :
                 user[i] # Empty /\ \A k \in 1..Len(user[i]) : AtomChar(user[i][k])
           /\ Len(dom) >= 2
           /\ \A i \in 1..Len(dom) : LabelOk(dom[i])
           /\ Len(dom[Len(dom)]) >= 2

EmailFieldValid(raw) ==
    LET v == CharToPython(raw) IN CharFieldValid(raw, TRUE, 0, 0, v = Empty \/ EmailValid(v))

\* ChoiceField.clean: required, and the value is one of the declared keys
ChoiceFieldValid(raw, keys) ==
    LET v == CharToPython(raw) IN v # Empty /\ v \in keys

IsLeap(y) == (y % 4 = 0 /\ y % 100 # 0) \/ y % 400 = 0

DaysIn(y, m) ==
    IF m = 2 THEN (IF IsLeap(y) THEN 29 ELSE 28)
    ELSE IF m \in {4, 6, 9, 11} THEN 30 ELSE 31

\* DateField.to_python on the ISO input format %Y-%m-%d
IsIsoDate(v) ==
    /\ Len(v) = 10
    /\ v[5] = "-" /\ v[8] = "-"
    /\ AllDigits(SubSeq(v, 1, 4)) /\ AllDigits(SubSeq(v, 6, 7)) /\ AllDigits(SubSeq(v, 9, 10))
    /\ LET y == ParseInt(SubSeq(v, 1, 4))
           m == ParseInt(SubSeq(v, 6, 7))
           d == ParseInt(SubSeq(v, 9, 10))
       IN  y >= 1 /\ m >= 1 /\ m <= 12 /\ d >= 1 /\ d <= DaysIn(y, m)

ParseDate(v) ==
    [year |-> ParseInt(SubSeq(v, 1, 4)),
     month |-> ParseInt(SubSeq(v, 6, 7)),
     day |-> ParseInt(SubSeq(v, 9, 10))]

DateFieldValid(raw) == LET v == CharToPython(raw) IN v # Empty /\ IsIsoDate(v)

\* CheckboxInput.value_from_datadict: absent, "false", "False" and "0" are False
CheckboxValue(raw) ==
    /\ raw # None
    /\ raw \notin {<<"f", "a", "l", "s", "e">>, <<"F", "a", "l", "s", "e">>, <<"0">>}
    /\ raw # Empty

(***************************************************************************)
(* main/forms.py: ContactForm                                              *)
(***************************************************************************)
SubjectKeys ==
    { <<"g", "e", "n", "e", "r", "a", "l">>, <<"w", "h", "o", "l", "e", "s", "a", "l", "e">>, <<"s", "u", "p", "p", "l", "y">>, <<"q", "u", "a", "l", "i", "t", "y">>, <<"s", "u", "p", "p", "o", "r", "t">>, <<"o", "t", "h", "e", "r">> }

\* clean_name: at least one letter
NameHasLetter(v) == \E i \in 1..Len(v) : IsAlpha(v[i])

\* clean_message: at least three words
MessageDetailedLax(v) == Len(Split(v)) >= 2

MessageDetailed(v) == Len(Split(v)) >= 3

ContactFieldValid(post, f) ==
    LET raw == Get(post, f)
        v == CharToPython(raw)
    IN  CASE f = "name" -> CharFieldValid(raw, TRUE, 100, 0, NameHasLetter(v))
          [] f = "email" -> EmailFieldValid(raw)
          [] f = "phone" -> CharFieldValid(raw, FALSE, 17, 0, PhoneRegexMatch(v))
          [] f = "company" -> CharFieldValid(raw, FALSE, 100, 0, TRUE)
          [] f = "subject" -> ChoiceFieldValid(raw, SubjectKeys)
          [] f = "message" -> CharFieldValid(raw, TRUE, 0, 10, MessageDetailed(v))
          [] f = "privacy_agreement" -> CheckboxValue(raw)

ContactFields ==
    {"name", "email", "phone", "company", "subject", "message", "privacy_agreement"}

\* form.errors: the fields that fail
ContactFormErrors(post) == {f \in ContactFields : ~ContactFieldValid(post, f)}

\* the ContactMessage that form.save() writes: cleaned_data over the model's
\* defaults
ContactCleaned(post) ==
    [name |-> Title(CharToPython(Get(post, "name"))),
     email |-> CharToPython(Get(post, "email")),
     phone |-> CharToPython(Get(post, "phone")),
     company |-> CharToPython(Get(post, "company")),
     subject |-> CharToPython(Get(post, "subject")),
     message |-> CharToPython(Get(post, "message")),
     status |-> "new"]

(***************************************************************************)
(* main/forms.py: QuoteRequestForm                                         *)
(***************************************************************************)
VarietyKeys == { <<"r", "u", "s", "s", "e", "t">>, <<"r", "e", "d">>, <<"y", "u", "k", "o", "n">>, <<"f", "i", "n", "g", "e", "r", "l", "i", "n", "g">>, <<"s", "w", "e", "e", "t">>, <<"m", "i", "x", "e", "d">> }

QuantityKeys == { <<"s", "m", "a", "l", "l">>, <<"m", "e", "d", "i", "u", "m">>, <<"l", "a", "r", "g", "e">>, <<"b", "u", "l", "k">> }

QuoteFieldValid(post, f) ==
    LET raw == Get(post, f)
    IN  CASE f = "company_name" -> CharFieldValid(raw, TRUE, 100, 0, TRUE)
          [] f = "contact_person" -> CharFieldValid(raw, TRUE, 100, 0, TRUE)
          [] f = "email" -> EmailFieldValid(raw)
          [] f = "phone" -> CharFieldValid(raw, TRUE, 20, 0, TRUE)
          [] f = "variety" -> ChoiceFieldValid(raw, VarietyKeys)
          [] f = "quantity_range" -> ChoiceFieldValid(raw, QuantityKeys)
          [] f = "delivery_location" -> CharFieldValid(raw, TRUE, 200, 0, TRUE)
          [] f = "delivery_date" -> DateFieldValid(raw)
          [] f = "additional_requirements" -> CharFieldValid(raw, FALSE, 0, 0, TRUE)

QuoteRequiredFields ==
    {"company_name", "contact_person", "email", "phone", "variety", "quantity_range",
     "delivery_location", "delivery_date"}

QuoteFields == QuoteRequiredFields \cup {"additional_requirements"}

QuoteFormErrors(post) == {f \in QuoteFields : ~QuoteFieldValid(post, f)}

\* QuoteRequest.objects.create(**form.cleaned_data) over the model's defaults
QuoteCleaned(post) ==
    [company_name |-> CharToPython(Get(post, "company_name")),
     contact_person |-> CharToPython(Get(post, "contact_person")),
     email |-> CharToPython(Get(post, "email")),
     phone |-> CharToPython(Get(post, "phone")),
     variety |-> CharToPython(Get(post, "variety")),
     quantity_range |-> CharToPython(Get(post, "quantity_range")),
     delivery_location |-> CharToPython(Get(post, "delivery_location")),
     delivery_date |-> ParseDate(CharToPython(Get(post, "delivery_date"))),
     additional_requirements |-> CharToPython(Get(post, "additional_requirements")),
     status |-> "pending"]

(***************************************************************************)
(* main/forms.py: NewsletterForm, bound to the decoded JSON object          *)
(***************************************************************************)
InterestKeys == { <<"p", "r", "o", "d", "u", "c", "t", "s">>, <<"p", "r", "i", "c", "e", "s">>, <<"s", "e", "a", "s", "o", "n", "a", "l">>, <<"r", "e", "c", "i", "p", "e", "s">>, <<"w", "h", "o", "l", "e", "s", "a", "l", "e">> }

\* a JSON value: [t |-> "str" | "num" | "list" | "null", v |-> its content]
JAbsent == [t |-> "null", v |-> Empty]

JGet(data, name) == IF name \in DOMAIN data THEN data[name] ELSE JAbsent

\* what the text widget hands to CharField: None, or str(value)
JText(j) == IF j.t \in {"str", "num"} THEN j.v ELSE None

NewsletterEmailValid(data) == EmailFieldValid(JText(JGet(data, "email")))

\* MultipleChoiceField.clean: nothing given is the empty list, anything but a
\* list is rejected, and every entry must be a declared key
InterestsValid(data) ==
    LET j == JGet(data, "interests")
    IN  \/ j.t = "null"
        \/ j.v = Empty
        \/ j.t = "list" /\ \A i \in 1..Len(j.v) : j.v[i] \in InterestKeys

NewsletterFormErrors(data) ==
    {f \in {"email"} : ~NewsletterEmailValid(data)}
        \cup {f \in {"interests"} : ~InterestsValid(data)}

\* form.cleaned_data
NewsletterCleaned(data) ==
    LET j == JGet(data, "interests")
    IN  [email |-> CharToPython(JText(JGet(data, "email"))),
         interests |-> IF j.t = "list" THEN j.v ELSE << >>]

(***************************************************************************)
(* main/views.py: the three form handlers                                  *)
(***************************************************************************)
\* what send_mail(..., fail_silently=True) can do: deliver, swallow a
\* transport failure, or raise (a bad header, a misconfigured backend)
MailOutcomes == {"sent", "failed", "raised"}

NoExchange ==
    [handler |-> "none", req |-> << >>, mail |-> "none", db |-> "none", errors |-> {},
     saved |-> FALSE, created |-> FALSE, prior |-> << >>, events |-> << >>,
     logs |-> << >>,
     response |-> [kind |-> "none", success |-> FALSE, message |-> "none",
                   has_errors |-> FALSE, errors |-> {}]]

Reply(kind, success, message) ==
    [kind |-> kind, success |-> success, message |-> message,
     has_errors |-> FALSE, errors |-> {}]

\* the failure payload that carries form.errors
ReplyErrors(kind, message, errs) ==
    [kind |-> kind, success |-> FALSE, message |-> message,
     has_errors |-> TRUE, errors |-> errs]

\* the success path of a handler: the record is written ("save"), then
\* send_mail is called in a try of its own ("send"), whose except clause logs
SendBeforeSave(mail, what, response) ==
    [saved |-> TRUE, db |-> "ok", events |-> <<"send", "save">>,
     logs |-> IF mail = "raised" THEN <<what>> ELSE << >>, response |-> response]

SavedThenMailed(mail, what, response) ==
    [saved |-> TRUE, db |-> "ok", events |-> <<"save", "send">>,
     logs |-> IF mail = "raised" THEN <<what>> ELSE << >>, response |-> response]

\* the save raised: the outer except clause logs and answers with a failure
SaveFailedAfterMail(what, response) ==
    [saved |-> FALSE, db |-> "failed", events |-> <<"send">>, logs |-> <<what>>,
     response |-> response]

SaveFailed(what, response) ==
    [saved |-> FALSE, db |-> "failed", events |-> << >>, logs |-> <<what>>,
     response |-> response]

\* nothing was attempted: the response alone, with the log entries written
Rejected(logs, response) ==
    [saved |-> FALSE, db |-> "none", events |-> << >>, logs |-> logs,
     response |-> response]

\* ContactView.post. redirect('contact') is resolved by the project's URL
\* configuration, which lies outside these sources; it is taken to resolve.
ContactOutcomeMailFatal(post, dbOk, mail) ==
    LET errs == ContactFormErrors(post)
    IN  IF errs = {}
        THEN IF dbOk
             THEN IF mail = "raised"
                  THEN SavedThenMailed(mail, "error_saving_contact",
                                       Reply("render", FALSE, "error_processing"))
                  ELSE SavedThenMailed(mail, "failed_notification_email",
                                       Reply("redirect", TRUE, "thank_you"))
             ELSE SaveFailed("error_saving_contact",
                             Reply("render", FALSE, "error_processing"))
        ELSE Rejected(<< >>, ReplyErrors("render", "correct_errors", errs))

ContactOutcomeMessageOnly(post, dbOk, mail) ==
    LET errs == ContactFormErrors(post)
    IN  IF "message" \notin errs
        THEN IF dbOk
             THEN SavedThenMailed(mail, "failed_notification_email",
                                  Reply("redirect", TRUE, "thank_you"))
             ELSE SaveFailed("error_saving_contact",
                             Reply("render", FALSE, "error_processing"))
        ELSE Rejected(<< >>, ReplyErrors("render", "correct_errors", errs))

ContactOutcome(post, dbOk, mail) ==
    LET errs == ContactFormErrors(post)
    IN  IF errs = {}
        THEN IF dbOk
             THEN SavedThenMailed(mail, "failed_notification_email",
                                  Reply("redirect", TRUE, "thank_you"))
             ELSE SaveFailed("error_saving_contact",
                             Reply("render", FALSE, "error_processing"))
        ELSE Rejected(<< >>, ReplyErrors("render", "correct_errors", errs))

\* QuoteRequestView.post
QuoteOutcomeLax(post, dbOk, mail) ==
    LET errs == QuoteFormErrors(post) \ {"delivery_location"}
    IN  IF errs = {}
        THEN IF dbOk
             THEN SavedThenMailed(mail, "failed_quote_email",
                                  Reply("json", TRUE, "quote_submitted"))
             ELSE SaveFailed("error_saving_quote",
                             Reply("json", FALSE, "error_processing"))
        ELSE Rejected(<< >>, ReplyErrors("json", "correct_errors", errs))

QuoteOutcome(post, dbOk, mail) ==
    LET errs == QuoteFormErrors(post)
    IN  IF errs = {}
        THEN IF dbOk
             THEN SavedThenMailed(mail, "failed_quote_email",
                                  Reply("json", TRUE, "quote_submitted"))
             ELSE SaveFailed("error_saving_quote",
                             Reply("json", FALSE, "error_processing"))
        ELSE Rejected(<< >>, ReplyErrors("json", "correct_errors", errs))

\* json.loads(request.body): the decoded value, or the exception raised. A
\* body is [kind, data]: "object" decodes to the dict `data`, "array" and
\* "scalar" to a list or a string, number or boolean, "null" to None;
\* "invalid_json" is text that is no JSON, "invalid_utf8" bytes that are no text
JsonLoads(body) ==
    CASE body.kind = "invalid_json" -> [raised |-> "JSONDecodeError", value |-> "none"]
      [] body.kind = "invalid_utf8" -> [raised |-> "UnicodeDecodeError", value |-> "none"]
      [] body.kind = "null" -> [raised |-> "none", value |-> "None"]
      [] body.kind \in {"array", "scalar"} -> [raised |-> "none", value |-> "not_a_dict"]
      [] body.kind = "object" -> [raised |-> "none", value |-> "dict"]

\* Newsletter.objects.filter(email=email)
NewsletterLookup(tbl, email) == {i \in DOMAIN tbl : tbl[i].email = email}

\* get_or_create(email=..., defaults=...) followed by the "if not created" branch
UpsertKeepInactive(tbl, nextId, email, interests) ==
    LET found == NewsletterLookup(tbl, email)
    IN  IF found = {}
        THEN [i \in DOMAIN tbl \cup {nextId} |->
                 IF i = nextId
                 THEN [email |-> email, interests |-> interests, is_active |-> TRUE]
                 ELSE tbl[i]]
        ELSE [i \in DOMAIN tbl |->
                 IF i \in found THEN [tbl[i] EXCEPT !.interests = interests] ELSE tbl[i]]

Upsert(tbl, nextId, email, interests) ==
    LET found == NewsletterLookup(tbl, email)
    IN  IF found = {}
        THEN [i \in DOMAIN tbl \cup {nextId} |->
                 IF i = nextId
                 THEN [email |-> email, interests |-> interests, is_active |-> TRUE]
                 ELSE tbl[i]]
        ELSE [i \in DOMAIN tbl |->
                 IF i \in found
                 THEN [tbl[i] EXCEPT !.interests = interests, !.is_active = TRUE]
                 ELSE tbl[i]]

\* NewsletterSignupView.post
NewsletterOutcome(body, dbOk, mail) ==
    LET parsed == JsonLoads(body)
    IN  IF parsed.raised = "JSONDecodeError"
        THEN Rejected(<< >>, Reply("json", FALSE, "invalid_format"))
        ELSE IF parsed.raised # "none"
        \* any other exception of json.loads reaches "except Exception"
        THEN Rejected(<<"newsletter_signup_error">>,
                      Reply("json", FALSE, "error_processing"))
        ELSE IF parsed.value = "None"
        \* NewsletterForm(None) is unbound: not valid, and without errors
        THEN Rejected(<< >>, ReplyErrors("json", "invalid_email", {}))
        ELSE IF parsed.value = "not_a_dict"
        \* data.get raises AttributeError inside is_valid()
        THEN Rejected(<<"newsletter_signup_error">>,
                      Reply("json", FALSE, "error_processing"))
        ELSE LET errs == NewsletterFormErrors(body.data)
                 created == NewsletterLookup(newsletters,
                                             NewsletterCleaned(body.data).email) = {}
             IN  IF errs # {}
                 THEN Rejected(<< >>, ReplyErrors("json", "invalid_email", errs))
                 ELSE IF ~dbOk
                 THEN SaveFailed("newsletter_signup_error",
                                 Reply("json", FALSE, "error_processing"))
                 ELSE SavedThenMailed(mail, "failed_welcome_email",
                         Reply("json", TRUE, IF created THEN "subscribed" ELSE "updated"))

Sends(events) == Cardinality({i \in 1..Len(events) : events[i] = "send"})

\* the record of one request: what came in, what the handler did, what went out
Exchange(handler, req, mail, errors, created, prior, out) ==
    [handler |-> handler, req |-> req,
     mail |-> IF Sends(out.events) > 0 THEN mail ELSE "none",
     db |-> out.db, errors |-> errors, saved |-> out.saved, created |-> created,
     prior |-> prior, events |-> out.events, logs |-> out.logs,
     response |-> out.response]

ContactPost(post, dbOk, mail) ==
    /\ http.handler = "none"
    /\ Len(contacts) < MaxContacts
    /\ LET out == ContactOutcome(post, dbOk, mail)
       IN  /\ contacts' = IF out.saved THEN Append(contacts, ContactCleaned(post))
                          ELSE contacts
           /\ http' = Exchange("contact", post, mail, ContactFormErrors(post),
                               out.saved, << >>, out)
    /\ UNCHANGED <<quotes, newsletters, nextNewsletterId>>
    /\ UNCHANGED <<saleVars, ledgerVars, stockVars, signups>>

\* form = ContactForm(request.POST); form.is_valid(): validation alone
ContactFormIsValid(post) ==
    /\ http.handler = "none"
    /\ http' = [NoExchange EXCEPT !.handler = "contact_form", !.req = post,
                                   !.errors = ContactFormErrors(post)]
    /\ UNCHANGED <<contacts, quotes, newsletters, nextNewsletterId>>
    /\ UNCHANGED <<saleVars, ledgerVars, stockVars, signups>>

QuotePost(post, dbOk, mail) ==
    /\ http.handler = "none"
    /\ Len(quotes) < MaxQuotes
    /\ LET out == QuoteOutcome(post, dbOk, mail)
       IN  /\ quotes' = IF out.saved THEN Append(quotes, QuoteCleaned(post)) ELSE quotes
           /\ http' = Exchange("quote", post, mail, QuoteFormErrors(post),
                               out.saved, << >>, out)
    /\ UNCHANGED <<contacts, newsletters, nextNewsletterId>>
    /\ UNCHANGED <<saleVars, ledgerVars, stockVars, signups>>

\* the stored row with the request's email before the request, if any
PriorRow(body) ==
    IF body.kind # "object" THEN << >>
    ELSE LET found == NewsletterLookup(newsletters, NewsletterCleaned(body.data).email)
         IN  IF found = {} THEN << >>
             ELSE <<newsletters[CHOOSE i \in found : TRUE]>>

NewsletterPost(body, dbOk, mail) ==
    /\ http.handler = "none"
    /\ LET out == NewsletterOutcome(body, dbOk, mail)
           c == NewsletterCleaned(body.data)
           created == out.saved /\ NewsletterLookup(newsletters, c.email) = {}
       IN  /\ newsletters' =
                 IF out.saved
                 THEN Upsert(newsletters, nextNewsletterId, c.email, c.interests)
                 ELSE newsletters
           /\ nextNewsletterId' =
                 IF created THEN nextNewsletterId + 1
                 ELSE nextNewsletterId
           /\ http' = Exchange("newsletter", body, mail,
                               IF body.kind = "object" THEN NewsletterFormErrors(body.data)
                               ELSE {},
                               created, PriorRow(body), out)
    /\ UNCHANGED <<contacts, quotes>>
    /\ UNCHANGED <<saleVars, ledgerVars, stockVars, signups>>

\* staff switch a subscriber off (Newsletter.is_active)
DeactivateSubscriber(id) ==
    /\ http.handler = "none"
    /\ id \in DOMAIN newsletters
    /\ newsletters[id].is_active
    /\ newsletters' = [newsletters EXCEPT ![id].is_active = FALSE]
    /\ UNCHANGED <<contacts, quotes, nextNewsletterId, http>>
    /\ UNCHANGED <<saleVars, ledgerVars, stockVars, signups>>

\* the response is returned and the request is over
Respond ==
    /\ http.handler # "none"
    /\ http' = NoExchange
    /\ UNCHANGED <<contacts, quotes, newsletters, nextNewsletterId>>
    /\ UNCHANGED <<saleVars, ledgerVars, stockVars, signups>>

\* NewsletterSignupView.post run by two requests at once. The handler's
\* queries are separate steps: the SELECT and the INSERT of get_or_create, the
\* SELECT it repeats when the INSERT meets the unique index on email, the
\* UPDATE of newsletter.save(), and the mail with the response.
SignupWorkers == {"r1", "r2"}

IdleSignup ==
    [pc |-> "idle", body |-> [kind |-> "none", data |-> << >>], id |-> 0,
     created |-> FALSE, conflict |-> FALSE, logs |-> << >>,
     response |-> Reply("none", FALSE, "none")]

\* get_or_create after IntegrityError: the row is read again, and the error
\* is raised again only if it is still not there
ConflictRaises(tbl, email) == [pc |-> "raise", id |-> 0]

ConflictOutcome(tbl, email) ==
    LET found == NewsletterLookup(tbl, email)
    IN  IF found # {} THEN [pc |-> "update", id |-> CHOOSE i \in found : TRUE]
        ELSE [pc |-> "raise", id |-> 0]

\* json.loads, form.is_valid() and the first SELECT of get_or_create
ReceiveSignup(w, body) ==
    /\ signups[w].pc = "idle"
    /\ LET errs == NewsletterFormErrors(body.data)
           found == NewsletterLookup(newsletters, NewsletterCleaned(body.data).email)
       IN  signups' = [signups EXCEPT ![w] =
              IF errs # {}
              THEN [@ EXCEPT !.pc = "done", !.body = body,
                             !.response = ReplyErrors("json", "invalid_email", errs)]
              ELSE IF found # {}
              THEN [@ EXCEPT !.pc = "update", !.body = body,
                             !.id = CHOOSE i \in found : TRUE]
              ELSE [@ EXCEPT !.pc = "create", !.body = body]]
    /\ UNCHANGED <<contacts, quotes, newsletters, nextNewsletterId, http>>
    /\ UNCHANGED <<saleVars, ledgerVars, stockVars>>

\* the INSERT of get_or_create
InsertSubscriber(w) ==
    /\ signups[w].pc = "create"
    /\ LET c == NewsletterCleaned(signups[w].body.data)
       IN  IF NewsletterLookup(newsletters, c.email) # {}
           THEN /\ signups' = [signups EXCEPT ![w].pc = "reget", ![w].conflict = TRUE]
                /\ UNCHANGED <<newsletters, nextNewsletterId>>
           ELSE /\ newsletters' = [i \in DOMAIN newsletters \cup {nextNewsletterId} |->
                                     IF i = nextNewsletterId
                                     THEN [email |-> c.email, interests |-> c.interests,
                                           is_active |-> TRUE]
                                     ELSE newsletters[i]]
                /\ nextNewsletterId' = nextNewsletterId + 1
                /\ signups' = [signups EXCEPT ![w].pc = "mail", ![w].created = TRUE,
                                               ![w].id = nextNewsletterId]
    /\ UNCHANGED <<contacts, quotes, http>>
    /\ UNCHANGED <<saleVars, ledgerVars, stockVars>>

\* the SELECT get_or_create repeats after IntegrityError; if the error is
\* raised again the handler's "except Exception" logs it and answers
RegetSubscriber(w) ==
    /\ signups[w].pc = "reget"
    /\ LET o == ConflictOutcome(newsletters, NewsletterCleaned(signups[w].body.data).email)
       IN  signups' = [signups EXCEPT ![w] =
              IF o.pc = "update" THEN [@ EXCEPT !.pc = "update", !.id = o.id]
              ELSE [@ EXCEPT !.pc = "done", !.logs = <<"newsletter_signup_error">>,
                             !.response = Reply("json", FALSE, "error_processing")]]
    /\ UNCHANGED <<contacts, quotes, newsletters, nextNewsletterId, http>>
    /\ UNCHANGED <<saleVars, ledgerVars, stockVars>>

\* "if not created": newsletter.save() writes the object read before, with
\* the request's interests and is_active = True
UpdateSubscriber(w) ==
    /\ signups[w].pc = "update"
    /\ LET c == NewsletterCleaned(signups[w].body.data)
           id == signups[w].id
       IN  newsletters' = [i \in DOMAIN newsletters \cup {id} |->
                              IF i = id
                              THEN [email |-> c.email, interests |-> c.interests,
                                    is_active |-> TRUE]
                              ELSE newsletters[i]]
    /\ signups' = [signups EXCEPT ![w].pc = "mail"]
    /\ UNCHANGED <<contacts, quotes, nextNewsletterId, http>>
    /\ UNCHANGED <<saleVars, ledgerVars, stockVars>>

\* the welcome mail, in its own try, and the success response
MailAndAnswer(w, mail) ==
    /\ signups[w].pc = "mail"
    /\ signups' = [signups EXCEPT
          ![w].pc = "done",
          ![w].logs = IF mail = "raised" THEN <<"failed_welcome_email">> ELSE << >>,
          ![w].response = Reply("json", TRUE, IF signups[w].created THEN "subscribed"
                                               ELSE "updated")]
    /\ UNCHANGED <<contacts, quotes, newsletters, nextNewsletterId, http>>
    /\ UNCHANGED <<saleVars, ledgerVars, stockVars>>

InitSite ==
    /\ contacts = << >>
    /\ quotes = << >>
    /\ newsletters = << >>
    /\ nextNewsletterId = 1
    /\ http = NoExchange
    /\ signups = [w \in SignupWorkers |-> IdleSignup]

(***************************************************************************)
(* Requests                                                                *)
(***************************************************************************)
\* form-encoded data: the fields given as None are not sent at all
MkPost(fields) == [f \in {k \in DOMAIN fields : fields[k] # None} |-> fields[f]]

RECURSIVE Repeat(_, _)
Repeat(s, n) == IF n = 0 THEN Empty ELSE s \o Repeat(s, n - 1)

\* `w` words of `l` letters each, `gap` between them, `pad` spaces around
Words(w, l, gap) ==
    IF w = 0 THEN Empty ELSE Repeat(<<"a">>, l) \o Repeat(gap \o Repeat(<<"a">>, l), w - 1)

Gaps == {<<" ">>, <<" ", " ">>, <<"\n">>}

Messages ==
    {Repeat(<<" ">>, p) \o Words(w, l, g) \o Repeat(<<" ">>, p) :
        w \in 0..MaxWords, l \in 1..MaxWordLen, g \in Gaps, p \in {0, 3}}

GoodMessage == <<"n", "e", "e", "d", " ", "t", "w", "o", " ", "t", "o", "n", "s">>

ShortMessage == <<"a", " ", "b", " ", "c">>

GoodEmail == <<"a", "n", "n", "@", "x", ".", "i", "o">>

OtherEmail == <<"b", "o", "b", "@", "x", ".", "i", "o">>

BadEmails == {<<"a", "n", "n", "x", ".", "i", "o">>, <<"a", "n", "n", "@", "x">>}

GoodPhone == <<"+">> \o <<"1", "2", "3", "4", "5", "6", "7", "8", "9", "0">>

ContactBase ==
    [name |-> <<"a", "n", "n", " ", "l", "e", "e">>, email |-> GoodEmail, phone |-> Empty, company |-> Empty,
     subject |-> <<"g", "e", "n", "e", "r", "a", "l">>, message |-> GoodMessage, privacy_agreement |-> <<"o", "n">>]

\* the contact submissions of the combined run
ContactInputs ==
    {MkPost([ContactBase EXCEPT !.email = e, !.phone = ph, !.subject = su,
                                !.message = m, !.privacy_agreement = pa]) :
        e \in {GoodEmail, <<"a", "n", "n", "x", ".", "i", "o">>},
        ph \in {Empty, <<"1", "2", "a", "b">>},
        su \in {<<"g", "e", "n", "e", "r", "a", "l">>, None},
        m \in {GoodMessage, ShortMessage},
        pa \in {<<"o", "n">>, None}}

\* the contact submissions of the contact-form run: every generated message
\* in an otherwise valid form, and the other fields varied together
ContactInputsWide ==
    {MkPost([ContactBase EXCEPT !.message = m]) : m \in Messages}
    \cup
    {MkPost([ContactBase EXCEPT !.name = n, !.email = e, !.phone = ph, !.subject = su,
                                !.message = m, !.privacy_agreement = pa]) :
        n \in {<<"a", "n", "n", " ", "l", "e", "e">>, <<"4", "2">>, None},
        e \in {GoodEmail} \cup BadEmails,
        ph \in {Empty, GoodPhone, <<"1", "2", "a", "b">>},
        su \in {<<"s", "u", "p", "p", "l", "y">>, <<"s", "p", "a", "m">>},
        m \in {GoodMessage, None},
        pa \in {<<"o", "n">>, <<"f", "a", "l", "s", "e">>}}

\* phone numbers: a prefix, a run of one digit, a suffix, and white space
\* around the whole
PhoneInputs ==
    {MkPost([ContactBase EXCEPT !.phone = pad \o pre \o Repeat(<<d>>, n) \o suf \o pad]) :
        pre \in {Empty, <<"+">>, <<"1">>, <<"+", "1">>, <<"+", "+">>, <<"1", "+">>, <<"-">>},
        d \in {"1", "7"},
        n \in 0..MaxPhoneDigits,
        suf \in {Empty, <<"x">>, <<" ", "5">>},
        pad \in {Empty, <<" ">>}}

QuoteBase ==
    [company_name |-> <<"a", "c", "m", "e">>, contact_person |-> <<"a", "n", "n", " ", "l", "e", "e">>, email |-> GoodEmail,
     phone |-> GoodPhone, variety |-> <<"r", "u", "s", "s", "e", "t">>, quantity_range |-> <<"m", "e", "d", "i", "u", "m">>,
     delivery_location |-> <<"b", "o", "i", "s", "e">>, delivery_date |-> <<"2", "0", "2", "7", "-", "0", "2", "-", "2", "8">>,
     additional_requirements |-> Empty]

\* the quote requests of the combined run
QuoteInputs ==
    {MkPost([QuoteBase EXCEPT !.email = e, !.variety = v, !.delivery_location = l,
                              !.delivery_date = d]) :
        e \in {GoodEmail, <<"a", "n", "n", "x", ".", "i", "o">>},
        v \in {<<"r", "u", "s", "s", "e", "t">>, Empty},
        l \in {<<"b", "o", "i", "s", "e">>, <<" ", " ">>},
        d \in {<<"2", "0", "2", "7", "-", "0", "2", "-", "2", "8">>, <<"2", "0", "2", "7", "-", "0", "2", "-", "2", "9">>}}

\* the quote requests of the quote-request run: every required field present,
\* empty, blank or not sent, together with values that are present but wrong
QuoteInputsWide ==
    {MkPost([company_name |-> cn, contact_person |-> cp, email |-> e, phone |-> ph,
             variety |-> v, quantity_range |-> qr, delivery_location |-> l,
             delivery_date |-> d, additional_requirements |-> Empty]) :
        cn \in {<<"a", "c", "m", "e">>, Empty},
        cp \in {<<"a", "n", "n", " ", "l", "e", "e">>, None},
        e \in {GoodEmail, Empty, <<"a", "n", "n", "x", ".", "i", "o">>},
        ph \in {GoodPhone, None},
        v \in {<<"y", "u", "k", "o", "n">>, Empty, <<"p", "o", "t", "a", "t", "o">>},
        qr \in {<<"b", "u", "l", "k">>, None},
        l \in {<<"b", "o", "i", "s", "e">>, Empty, None, <<" ", " ">>},
        d \in {<<"2", "0", "2", "8", "-", "0", "2", "-", "2", "9">>, Empty, None, <<"2", "0", "2", "7", "-", "1", "3", "-", "0", "1">>}}
    \cup
    {MkPost([QuoteBase EXCEPT !.phone = ph]) :
        ph \in {<<"1", "2", "a", "b">>, <<"5", "5", "5", "-", "0", "1", "0", "0">>,
                <<"+", "1", "2", "3", "4", "5", "6", "7", "8", "9", "0", "1">>}}

JStr(text) == [t |-> "str", v |-> text]

JList(items) == [t |-> "list", v |-> items]

InterestInputs ==
    {JAbsent, JList(<<<<"p", "r", "o", "d", "u", "c", "t", "s">>>>), JList(<<<<"p", "r", "i", "c", "e", "s">>, <<"r", "e", "c", "i", "p", "e", "s">>>>), JList(<<<<"b", "o", "g", "u", "s">>>>)}

MalformedBodies ==
    {[kind |-> k, data |-> << >>] :
        k \in {"invalid_json", "invalid_utf8", "array", "scalar", "null"}}

\* the newsletter bodies of the combined run
NewsletterInputs ==
    {[kind |-> "object", data |-> [email |-> JStr(e), interests |-> i]] :
        e \in {GoodEmail, OtherEmail, <<"a", "n", "n", "x", ".", "i", "o">>}, i \in InterestInputs}
    \cup {[kind |-> k, data |-> << >>] : k \in {"invalid_json", "array"}}

\* the newsletter bodies of the newsletter run
NewsletterInputsWide ==
    {[kind |-> "object", data |-> [email |-> e, interests |-> i]] :
        e \in {JStr(GoodEmail), JStr(OtherEmail), JStr(<<"a", "n", "n", "x", ".", "i", "o">>), JAbsent,
               [t |-> "num", v |-> <<"4", "2">>], JStr(<<" ">> \o GoodEmail)},
        i \in InterestInputs \cup {JList(<< >>), JStr(<<"p", "r", "o", "d", "u", "c", "t", "s">>),
                                   JList(<<<<"s", "e", "a", "s", "o", "n", "a", "l">>, <<"p", "r", "o", "d", "u", "c", "t", "s">>>>)}}
    \cup {[kind |-> "object", data |-> << >>]}
    \cup MalformedBodies

(***************************************************************************)
(* records/models.py: Sale                                                 *)
(***************************************************************************)
PaymentStatus == {"pending", "paid"}

\* invoice numbers a caller may set before the first save
ExplicitInvoices ==
    { <<"I", "N", "V", "-", "0", "0", "0", "0", "1">>,
      <<"I", "N", "V", "-", "0", "0", "0", "0", "2">>,
      <<"I", "N", "V", "-", "9", "9", "9", "9", "9">>,
      <<"D", "R", "A", "F", "T">> }

\* Sale.objects.order_by('-id').first()
FirstSaleId(tbl) == CHOOSE i \in DOMAIN tbl : \A j \in DOMAIN tbl : i <= j

LastSaleId(tbl) == CHOOSE i \in DOMAIN tbl : \A j \in DOMAIN tbl : j <= i

\* the body of "if not self.invoice_number": the generated number, or the
\* ValueError int() raises on a last number whose tail is no integer
GenerateInvoice(tbl) ==
    IF DOMAIN tbl = {} THEN [ok |-> TRUE, value |-> FormatInvoice(0 + 1)]
    ELSE LET last == tbl[LastSaleId(tbl)].invoice_number
             tail == LastSegment(last)
         IN  IF last = Empty THEN [ok |-> TRUE, value |-> FormatInvoice(0 + 1)]
             ELSE IF IsIntLiteral(tail)
                  THEN [ok |-> TRUE, value |-> FormatInvoice(ParseInt(tail) + 1)]
                  ELSE [ok |-> FALSE, value |-> Empty]

\* the number Sale.save leaves on the object before calling super().save()
AssignAlways(tbl, current) == GenerateInvoice(tbl)

AssignInvoice(tbl, current) ==
    IF current = Empty THEN GenerateInvoice(tbl)
    ELSE [ok |-> TRUE, value |-> current]

\* unique=True on invoice_number: another row already holds the number
UniqueNotEnforced(tbl, self, number) == FALSE

UniqueViolation(tbl, self, number) ==
    \E j \in DOMAIN tbl : j # self /\ tbl[j].invoice_number = number

\* first save of a Sale object whose invoice_number is `inv` (Empty: unset)
SaveNewSale(inv, status) ==
    /\ UNCHANGED <<ledgerVars, siteVars, stockVars>>
    /\ LET a == AssignInvoice(sales, inv)
       IN
        IF ~a.ok
        THEN /\ saleResult' = [op |-> "create", id |-> 0, outcome |-> "ValueError"]
             /\ UNCHANGED <<sales, nextSaleId, issued>>
        ELSE IF UniqueViolation(sales, 0, a.value)
        THEN /\ saleResult' = [op |-> "create", id |-> 0, outcome |-> "IntegrityError"]
             /\ UNCHANGED <<sales, nextSaleId, issued>>
        ELSE /\ sales' = [i \in DOMAIN sales \cup {nextSaleId} |->
                            IF i = nextSaleId
                            THEN [invoice_number |-> a.value, payment_status |-> status]
                            ELSE sales[i]]
             /\ nextSaleId' = nextSaleId + 1
             /\ issued' = IF inv = Empty THEN Append(issued, a.value) ELSE issued
             /\ saleResult' = [op |-> "create", id |-> nextSaleId, outcome |-> "saved"]
    /\ UNCHANGED savers

\* a later save of the stored Sale `id` (the admin form cannot edit
\* invoice_number: it is a read-only field)
ResaveSale(id, status) ==
    /\ id \in DOMAIN sales
    /\ status # sales[id].payment_status
    /\ LET a == AssignInvoice(sales, sales[id].invoice_number)
       IN  IF ~a.ok
           THEN /\ saleResult' = [op |-> "update", id |-> id, outcome |-> "ValueError"]
                /\ UNCHANGED sales
           ELSE IF UniqueViolation(sales, id, a.value)
           THEN /\ saleResult' = [op |-> "update", id |-> id, outcome |-> "IntegrityError"]
                /\ UNCHANGED sales
           ELSE /\ sales' = [sales EXCEPT ![id] =
                                [invoice_number |-> a.value, payment_status |-> status]]
                /\ saleResult' = [op |-> "update", id |-> id, outcome |-> "saved"]
    /\ UNCHANGED <<nextSaleId, issued, savers>>
    /\ UNCHANGED <<ledgerVars, siteVars, stockVars>>

DeleteSale(id) ==
    /\ id \in DOMAIN sales
    /\ sales' = [i \in DOMAIN sales \ {id} |-> sales[i]]
    /\ saleResult' = [op |-> "delete", id |-> id, outcome |-> "deleted"]
    /\ UNCHANGED <<nextSaleId, issued, savers>>
    /\ UNCHANGED <<ledgerVars, siteVars, stockVars>>

\* Sale.save run by two requests at once. Each call is two steps: the query
\* for the latest Sale with the computation of the number, and super().save(),
\* whose INSERT the unique index on invoice_number checks atomically.
SaleWorkers == {"w1", "w2"}

\* "if not self.invoice_number": worker `w` reads the latest Sale and computes
\* its number
ReadLastSale(w) ==
    /\ savers[w].pc # "computed"
    /\ nextSaleId <= MaxSales
    /\ LET a == AssignInvoice(sales, Empty)
       IN  IF a.ok
           THEN /\ savers' = [savers EXCEPT ![w] = [pc |-> "computed", number |-> a.value]]
                /\ UNCHANGED saleResult
           ELSE /\ savers' = [savers EXCEPT ![w] = [pc |-> "failed", number |-> Empty]]
                /\ saleResult' = [op |-> "create", id |-> 0, outcome |-> "ValueError"]
    /\ UNCHANGED <<sales, nextSaleId, issued>>
    /\ UNCHANGED <<ledgerVars, siteVars, stockVars>>

\* super().save(): worker `w` inserts the row with the number it computed
InsertSale(w, status) ==
    /\ savers[w].pc = "computed"
    /\ IF UniqueViolation(sales, 0, savers[w].number)
       THEN /\ savers' = [savers EXCEPT ![w].pc = "failed"]
            /\ saleResult' = [op |-> "create", id |-> 0, outcome |-> "IntegrityError"]
            /\ UNCHANGED <<sales, nextSaleId, issued>>
       ELSE /\ sales' = [i \in DOMAIN sales \cup {nextSaleId} |->
                            IF i = nextSaleId
                            THEN [invoice_number |-> savers[w].number,
                                  payment_status |-> status]
                            ELSE sales[i]]
            /\ nextSaleId' = nextSaleId + 1
            /\ issued' = Append(issued, savers[w].number)
            /\ savers' = [savers EXCEPT ![w].pc = "saved"]
            /\ saleResult' = [op |-> "create", id |-> nextSaleId, outcome |-> "saved"]
    /\ UNCHANGED <<ledgerVars, siteVars, stockVars>>

InitSale ==
    /\ sales = << >>
    /\ nextSaleId = 1
    /\ issued = << >>
    /\ saleResult = [op |-> "none", id |-> 0, outcome |-> "none"]
    /\ savers = [w \in SaleWorkers |-> [pc |-> "idle", number |-> Empty]]

(***************************************************************************)
(* records/models.py: SeedBatch and PlantingRecord                         *)
(***************************************************************************)
SeedVariety == {"russet", "red"}

FieldName == {"north", "south"}

\* the rows a delete of SeedBatch `b` takes with it: on_delete=models.CASCADE
\* on PlantingRecord.seed_batch
CascadeNone(b) == {}

Cascade(b) == {p \in DOMAIN plantings : plantings[p].seed_batch = b}

\* Decimal values. A stored DecimalField with two decimal places is an
\* integer number of hundredths; an optional one is << >> (None) or <<v>>. The
\* result of Decimal arithmetic is [coef, exp]: the digits of the coefficient
\* and the power of ten, written without trailing zeros.

\* decimal.getcontext().prec
DecimalPrec == 28

RECURSIVE IntDigits(_)
IntDigits(n) == IF n < 10 THEN <<n>> ELSE Append(IntDigits(n \div 10), n % 10)

RECURSIVE Increment(_)
Increment(digits) ==
    IF digits = << >> THEN <<1>>
    ELSE IF digits[Len(digits)] < 9
         THEN [digits EXCEPT ![Len(digits)] = @ + 1]
         ELSE Append(Increment(SubSeq(digits, 1, Len(digits) - 1)), 0)

RECURSIVE Normalize(_)
Normalize(x) ==
    IF Len(x.coef) > 1 /\ x.coef[Len(x.coef)] = 0
    THEN Normalize([coef |-> SubSeq(x.coef, 1, Len(x.coef) - 1), exp |-> x.exp + 1])
    ELSE x

\* long division: the quotient's digits one at a time, up to the context
\* precision, the last one rounded half-even on the remainder
RECURSIVE DivDigits(_, _, _, _)
DivDigits(r, e, digits, exp) ==
    IF r = 0 THEN [coef |-> digits, exp |-> exp]
    ELSE IF Len(digits) = DecimalPrec
    THEN [coef |-> IF 2 * r > e \/ (2 * r = e /\ digits[Len(digits)] % 2 = 1)
                   THEN Increment(digits) ELSE digits,
          exp |-> exp]
    ELSE LET d == (r * 10) \div e
         IN  DivDigits((r * 10) % e, e,
                       IF digits = << >> /\ d = 0 THEN << >> ELSE Append(digits, d),
                       exp - 1)

\* Decimal.__truediv__ on two positive values of the same exponent
DecimalDivide(a, e) ==
    Normalize(DivDigits(a % e, e, IF a \div e = 0 THEN << >> ELSE IntDigits(a \div e), 0))

\* Decimal.__mul__ by the integer 100: the coefficient gains two zeros, which
\* rounding to the context precision drops again without changing the value
DecimalTimes100(x) == Normalize([coef |-> x.coef, exp |-> x.exp + 2])

\* bool() of an optional Decimal: None and zero are false
Truthy(opt) == opt # << >> /\ opt[1] # 0

\* PlantingRecord.yield_efficiency: << >> is None
YieldEfficiencyRatio(row) ==
    IF Truthy(row.actual_yield_kg) /\ Truthy(<<row.expected_yield_kg>>)
    THEN <<DecimalDivide(row.actual_yield_kg[1], row.expected_yield_kg)>>
    ELSE << >>

YieldEfficiency(row) ==
    IF Truthy(row.actual_yield_kg) /\ Truthy(<<row.expected_yield_kg>>)
    THEN <<DecimalTimes100(DecimalDivide(row.actual_yield_kg[1], row.expected_yield_kg))>>
    ELSE << >>

\* MinValueValidator(Decimal('0.01')) on a value in hundredths
MinValueOk(v) == v >= 1

\* the admin form's validation of the two yields: expected_yield_kg is
\* required, actual_yield_kg may be left empty
YieldsValid(expected, actual) ==
    /\ MinValueOk(expected)
    /\ actual # << >> => MinValueOk(actual[1])

CreateSeedBatch(v) ==
    /\ nextBatchId <= MaxBatches
    /\ batches' = [i \in DOMAIN batches \cup {nextBatchId} |->
                      IF i = nextBatchId THEN [variety |-> v] ELSE batches[i]]
    /\ nextBatchId' = nextBatchId + 1
    /\ ledgerResult' = [op |-> "create_batch", id |-> nextBatchId]
    /\ UNCHANGED <<plantings, nextPlantingId>>
    /\ UNCHANGED <<saleVars, siteVars, stockVars>>

\* the foreign key admits only a stored SeedBatch; a form whose yields fail
\* validation is shown again and nothing is written
CreatePlantingRecord(f, b, expected, actual) ==
    /\ nextPlantingId <= MaxPlantings
    /\ b \in DOMAIN batches
    /\ IF YieldsValid(expected, actual)
       THEN /\ plantings' = [i \in DOMAIN plantings \cup {nextPlantingId} |->
                               IF i = nextPlantingId
                               THEN [field_name |-> f, seed_batch |-> b,
                                     expected_yield_kg |-> expected,
                                     actual_yield_kg |-> actual]
                               ELSE plantings[i]]
            /\ nextPlantingId' = nextPlantingId + 1
            /\ ledgerResult' = [op |-> "create_planting", id |-> nextPlantingId]
       ELSE /\ ledgerResult' = [op |-> "invalid_planting", id |-> 0]
            /\ UNCHANGED <<plantings, nextPlantingId>>
    /\ UNCHANGED <<batches, nextBatchId>>
    /\ UNCHANGED <<saleVars, siteVars, stockVars>>

\* the admin edit form sets the harvested yield of a stored PlantingRecord
RecordHarvest(p, actual) ==
    /\ p \in DOMAIN plantings
    /\ actual # plantings[p].actual_yield_kg
    /\ IF YieldsValid(plantings[p].expected_yield_kg, actual)
       THEN /\ plantings' = [plantings EXCEPT ![p].actual_yield_kg = actual]
            /\ ledgerResult' = [op |-> "update_planting", id |-> p]
       ELSE /\ ledgerResult' = [op |-> "invalid_planting", id |-> 0]
            /\ UNCHANGED plantings
    /\ UNCHANGED <<batches, nextBatchId, nextPlantingId>>
    /\ UNCHANGED <<saleVars, siteVars, stockVars>>

\* obj.yield_efficiency is read for the stored PlantingRecord `p`
ReadYieldEfficiency(p) ==
    /\ p \in DOMAIN plantings
    /\ ledgerResult' = [op |-> "yield_efficiency", id |-> p,
                         value |-> YieldEfficiency(plantings[p])]
    /\ UNCHANGED <<batches, nextBatchId, plantings, nextPlantingId>>
    /\ UNCHANGED <<saleVars, siteVars, stockVars>>

\* the admin edit form can move a PlantingRecord to another stored SeedBatch
UpdatePlantingRecord(p, b) ==
    /\ p \in DOMAIN plantings
    /\ b \in DOMAIN batches
    /\ b # plantings[p].seed_batch
    /\ plantings' = [plantings EXCEPT ![p].seed_batch = b]
    /\ ledgerResult' = [op |-> "update_planting", id |-> p]
    /\ UNCHANGED <<batches, nextBatchId, nextPlantingId>>
    /\ UNCHANGED <<saleVars, siteVars, stockVars>>

DeleteSeedBatch(b) ==
    /\ b \in DOMAIN batches
    /\ batches' = [i \in DOMAIN batches \ {b} |-> batches[i]]
    /\ plantings' = [p \in DOMAIN plantings \ Cascade(b) |-> plantings[p]]
    /\ ledgerResult' = [op |-> "delete_batch", id |-> b]
    /\ UNCHANGED <<nextBatchId, nextPlantingId>>
    /\ UNCHANGED <<saleVars, siteVars, stockVars>>

DeletePlantingRecord(p) ==
    /\ p \in DOMAIN plantings
    /\ plantings' = [i \in DOMAIN plantings \ {p} |-> plantings[i]]
    /\ ledgerResult' = [op |-> "delete_planting", id |-> p]
    /\ UNCHANGED <<batches, nextBatchId, nextPlantingId>>
    /\ UNCHANGED <<saleVars, siteVars, stockVars>>

InitLedger ==
    /\ batches = << >>
    /\ nextBatchId = 1
    /\ plantings = << >>
    /\ nextPlantingId = 1
    /\ ledgerResult = [op |-> "none", id |-> 0]

NextLedger ==
    \/ \E v \in SeedVariety : CreateSeedBatch(v)
    \/ \E f \in FieldName, b \in DOMAIN batches :
          CreatePlantingRecord(f, b, MaxYield, << >>)
    \/ \E p \in DOMAIN plantings, b \in DOMAIN batches : UpdatePlantingRecord(p, b)
    \/ \E b \in DOMAIN batches : DeleteSeedBatch(b)
    \/ \E p \in DOMAIN plantings : DeletePlantingRecord(p)

(***************************************************************************)
(* records/models.py, records/admin.py: Inventory                          *)
(***************************************************************************)
\* the threshold of is_low_stock, 50 kg, in hundredths
LowStockThreshold == 50 * 100

\* Inventory.is_low_stock
IsLowStockInclusive(row) == row.quantity_kg <= LowStockThreshold

IsLowStock(row) == row.quantity_kg < LowStockThreshold

\* InventoryAdmin.stock_status: the text of the badge
StockStatus(row) == IF IsLowStock(row) THEN "Low Stock" ELSE "Good"

\* MinValueValidator(Decimal('0')) on quantity_kg
QuantityValid(q) == q >= 0

CreateInventory(q) ==
    /\ nextInventoryId <= MaxInventory
    /\ IF QuantityValid(q)
       THEN /\ inventory' = [i \in DOMAIN inventory \cup {nextInventoryId} |->
                               IF i = nextInventoryId THEN [quantity_kg |-> q]
                               ELSE inventory[i]]
            /\ nextInventoryId' = nextInventoryId + 1
            /\ stockResult' = [op |-> "create", id |-> nextInventoryId]
       ELSE /\ stockResult' = [op |-> "invalid", id |-> 0]
            /\ UNCHANGED <<inventory, nextInventoryId>>
    /\ UNCHANGED <<saleVars, ledgerVars, siteVars>>

UpdateInventory(id, q) ==
    /\ id \in DOMAIN inventory
    /\ q # inventory[id].quantity_kg
    /\ IF QuantityValid(q)
       THEN /\ inventory' = [inventory EXCEPT ![id].quantity_kg = q]
            /\ stockResult' = [op |-> "update", id |-> id]
       ELSE /\ stockResult' = [op |-> "invalid", id |-> 0]
            /\ UNCHANGED inventory
    /\ UNCHANGED nextInventoryId
    /\ UNCHANGED <<saleVars, ledgerVars, siteVars>>

\* the admin list shows the row `id`: its is_low_stock and its badge
ShowStockStatus(id) ==
    /\ id \in DOMAIN inventory
    /\ stockResult' = [op |-> "stock_status", id |-> id,
                        is_low_stock |-> IsLowStock(inventory[id]),
                        badge |-> StockStatus(inventory[id])]
    /\ UNCHANGED <<inventory, nextInventoryId>>
    /\ UNCHANGED <<saleVars, ledgerVars, siteVars>>

InitStock ==
    /\ inventory = << >>
    /\ nextInventoryId = 1
    /\ stockResult = [op |-> "none", id |-> 0]

\* the quantities the admin form is given, in hundredths of a kilogram
StockQuantities ==
    {-1, 0} \cup ((LowStockThreshold - MaxStockDelta)..(LowStockThreshold + MaxStockDelta))

NextStock ==
    \/ \E q \in StockQuantities : CreateInventory(q)
    \/ \E id \in DOMAIN inventory, q \in StockQuantities : UpdateInventory(id, q)
    \/ \E id \in DOMAIN inventory : ShowStockStatus(id)

Init == InitSale /\ InitLedger /\ InitSite /\ InitStock

SpecStock == Init /\ [][NextStock]_vars

SpecLedger == Init /\ [][NextLedger]_vars

\* the yields the admin form is given, in hundredths of a kilogram
ExpectedYields == 0..MaxYield

ActualYields == {<< >>} \cup {<<v>> : v \in 0..MaxYield}

\* one PlantingRecord at a time: entered, harvested, read and deleted
NextYield ==
    \/ DOMAIN batches = {} /\ CreateSeedBatch("russet")
    \/ /\ DOMAIN plantings = {}
       /\ \E b \in DOMAIN batches, e \in ExpectedYields, a \in ActualYields :
             CreatePlantingRecord("north", b, e, a)
    \/ \E p \in DOMAIN plantings, a \in ActualYields : RecordHarvest(p, a)
    \/ \E p \in DOMAIN plantings : ReadYieldEfficiency(p)
    \/ \E p \in DOMAIN plantings : DeletePlantingRecord(p)

SpecYield == Init /\ [][NextYield]_vars

CreateAutoSale == \E st \in PaymentStatus : SaveNewSale(Empty, st)

CreateExplicitSale == \E inv \in ExplicitInvoices, st \in PaymentStatus : SaveNewSale(inv, st)

UpdateSale == \E id \in DOMAIN sales, st \in PaymentStatus : ResaveSale(id, st)

RemoveSale == \E id \in DOMAIN sales : DeleteSale(id)

NextSale ==
    \/ nextSaleId <= MaxSales /\ CreateAutoSale
    \/ nextSaleId <= MaxSales /\ CreateExplicitSale
    \/ UpdateSale
    \/ RemoveSale

SpecSale == Init /\ [][NextSale]_vars

NextSaleSeq ==
    \/ nextSaleId <= MaxSeqSales /\ SaveNewSale(Empty, "pending")
    \/ \E id \in DOMAIN sales : ResaveSale(id, "paid")

SpecSaleSeq == Init /\ [][NextSaleSeq]_vars

\* auto-numbered creations and deletions, one after the other
NextSaleDel ==
    \/ nextSaleId <= MaxDelSales /\ CreateAutoSale
    \/ RemoveSale

SpecSaleDel == Init /\ [][NextSaleDel]_vars

\* two workers save auto-numbered Sales at the same time
NextSaleRace ==
    \/ \E w \in SaleWorkers : ReadLastSale(w)
    \/ \E w \in SaleWorkers, st \in PaymentStatus : InsertSale(w, st)

SpecSaleRace == Init /\ [][NextSaleRace]_vars

(***************************************************************************)
(* The public site                                                         *)
(***************************************************************************)
SubmitContact ==
    \E post \in ContactInputs, dbOk \in BOOLEAN, mail \in MailOutcomes :
        ContactPost(post, dbOk, mail)

SubmitQuote ==
    \E post \in QuoteInputs, dbOk \in BOOLEAN, mail \in MailOutcomes :
        QuotePost(post, dbOk, mail)

SubmitNewsletter ==
    \E body \in NewsletterInputs, dbOk \in BOOLEAN, mail \in MailOutcomes :
        NewsletterPost(body, dbOk, mail)

Deactivate == \E id \in DOMAIN newsletters : DeactivateSubscriber(id)

Next ==
    \/ SubmitContact
    \/ SubmitQuote
    \/ SubmitNewsletter
    \/ Deactivate
    \/ Respond

Spec == Init /\ [][Next]_vars

NextContact ==
    \/ \E post \in ContactInputsWide, dbOk \in BOOLEAN, mail \in MailOutcomes :
          ContactPost(post, dbOk, mail)
    \/ Respond

SpecContact == Init /\ [][NextContact]_vars

NextPhone ==
    \/ \E post \in PhoneInputs : ContactFormIsValid(post)
    \/ Respond

SpecPhone == Init /\ [][NextPhone]_vars

NextQuote ==
    \/ \E post \in QuoteInputsWide, dbOk \in BOOLEAN, mail \in MailOutcomes :
          QuotePost(post, dbOk, mail)
    \/ Respond

SpecQuote == Init /\ [][NextQuote]_vars

NextNewsletter ==
    \/ \E body \in NewsletterInputsWide, dbOk \in BOOLEAN, mail \in MailOutcomes :
          NewsletterPost(body, dbOk, mail)
    \/ Deactivate
    \/ Respond

SpecNewsletter == Init /\ [][NextNewsletter]_vars

\* two signup requests handled at the same time, each with one of these bodies
RaceBodies ==
    {[kind |-> "object", data |-> [email |-> JStr(e), interests |-> i]] :
        e \in {GoodEmail, OtherEmail, <<"a", "n", "n", "x", ".", "i", "o">>},
        i \in {JAbsent, JList(<<<<"p", "r", "o", "d", "u", "c", "t", "s">>>>),
               JList(<<<<"p", "r", "i", "c", "e", "s">>, <<"r", "e", "c", "i", "p", "e", "s">>>>)}}

NextNewsletterRace ==
    \/ \E w \in SignupWorkers, body \in RaceBodies : ReceiveSignup(w, body)
    \/ \E w \in SignupWorkers : InsertSubscriber(w)
    \/ \E w \in SignupWorkers : RegetSubscriber(w)
    \/ \E w \in SignupWorkers : UpdateSubscriber(w)
    \/ \E w \in SignupWorkers, mail \in MailOutcomes : MailAndAnswer(w, mail)

SpecNewsletterRace == Init /\ [][NextNewsletterRace]_vars

(***************************************************************************)
(* Claims                                                                  *)
(***************************************************************************)
\* the text "INV-" followed by n written with exactly five decimal digits
InvoiceText(n) ==
    <<"I", "N", "V", "-",
      DigitChars[((n \div 10000) % 10) + 1],
      DigitChars[((n \div 1000) % 10) + 1],
      DigitChars[((n \div 100) % 10) + 1],
      DigitChars[((n \div 10) % 10) + 1],
      DigitChars[(n % 10) + 1]>>

\* C2: in a run of successive auto-numbered Sale creations from an empty
\* table, the n-th created Sale holds INV- followed by n zero-padded to five
\* digits, and the numbers handed out are pairwise distinct.
C2_SequentialInvoices ==
    /\ \A n \in 1..Len(issued) :
          /\ n \in DOMAIN sales
          /\ sales[n].invoice_number = InvoiceText(n)
          /\ issued[n] = InvoiceText(n)
    /\ \A m, n \in 1..Len(issued) : m # n => issued[m] # issued[n]

C2_Witness ==
    /\ Len(issued) >= 10
    /\ issued[10] = <<"I", "N", "V", "-", "0", "0", "0", "1", "0">>

\* C7: a later save of a stored Sale leaves its invoice_number as it was,
\* whatever other Sales were created or deleted before.
C7_InvoiceImmutable ==
    [][\A id \in DOMAIN sales :
          id \in DOMAIN sales' => sales'[id].invoice_number = sales[id].invoice_number]_vars

C7_Witness ==
    /\ saleResult.op = "update"
    /\ saleResult.outcome = "saved"
    /\ saleResult.id \in DOMAIN sales
    /\ sales[saleResult.id].invoice_number # FormatInvoice(saleResult.id)
    /\ \E j \in DOMAIN sales : j > saleResult.id
    /\ \E j \in 1..(nextSaleId - 1) : j \notin DOMAIN sales

\* C6: every stored PlantingRecord references a stored SeedBatch, and
\* deleting a SeedBatch removes exactly the PlantingRecords that reference it
\* and leaves the PlantingRecords of other batches as they were.
C6_CascadeDelete ==
    [][/\ \A p \in DOMAIN plantings' : plantings'[p].seed_batch \in DOMAIN batches'
       /\ ledgerResult'.op = "delete_batch" =>
             /\ DOMAIN plantings' =
                   {p \in DOMAIN plantings : plantings[p].seed_batch # ledgerResult'.id}
             /\ \A p \in DOMAIN plantings' : plantings'[p] = plantings[p]
             /\ DOMAIN batches' = DOMAIN batches \ {ledgerResult'.id}]_vars

\* a SeedBatch with a PlantingRecord was deleted while another batch kept one
C6_Witness ==
    /\ ledgerResult.op = "delete_batch"
    /\ \E p \in 1..(nextPlantingId - 1) : p \notin DOMAIN plantings
    /\ DOMAIN plantings # {}

\* a request was handled in this step
Handled(handler) == http.handler = "none" /\ http'.handler = handler

\* the interests a newsletter body asks for, as sent
AskedInterests(data) ==
    IF "interests" \in DOMAIN data /\ data["interests"].t = "list"
    THEN data["interests"].v ELSE << >>

\* the stored Newsletter rows whose email is the one the body carries
RowsFor(data) ==
    {i \in DOMAIN newsletters : newsletters[i].email = Strip(data["email"].v)}

\* C1: after a valid newsletter signup that the store accepted, first or
\* repeated, the store holds exactly one Newsletter with that email, its
\* interests are the request's and it is active, also when the row had other
\* interests or had been deactivated before.
C1_NewsletterUpsert ==
    (/\ http.handler = "newsletter"
     /\ http.req.kind = "object"
     /\ http.errors = {}
     /\ http.db # "failed")
    => /\ http.response.success
       /\ Cardinality(RowsFor(http.req.data)) = 1
       /\ \A i \in RowsFor(http.req.data) :
             /\ newsletters[i].interests = AskedInterests(http.req.data)
             /\ newsletters[i].is_active

\* a repeat signup met a deactivated row with other interests
C1_Witness ==
    /\ http.handler = "newsletter"
    /\ http.response.message = "updated"
    /\ http.prior # << >>
    /\ ~http.prior[1].is_active
    /\ http.prior[1].interests # AskedInterests(http.req.data)
    /\ AskedInterests(http.req.data) # << >>
    /\ Cardinality(DOMAIN newsletters) = 2

C4_NoPartialApplication ==
    [][(http.handler = "none" /\ http'.handler # "none" /\ http'.errors # {}) =>
          /\ contacts' = contacts
          /\ quotes' = quotes
          /\ newsletters' = newsletters
          /\ nextNewsletterId' = nextNewsletterId
          /\ Sends(http'.events) = 0
          /\ ~http'.response.success]_vars

\* a newsletter signup for a stored email was refused for its interests alone
C4_Witness ==
    /\ http.handler = "newsletter"
    /\ http.errors = {"interests"}
    /\ http.prior # << >>
    /\ ~http.response.success

\* C5: a quote request with a required field missing or empty is answered
\* with success false and an errors entry for that field, and stores no
\* QuoteRequest.
C5_QuoteRequiredFields ==
    [][Handled("quote") =>
          \A f \in QuoteRequiredFields :
              (f \notin DOMAIN http'.req \/ http'.req[f] = Empty) =>
                  /\ ~http'.response.success
                  /\ http'.response.has_errors
                  /\ f \in http'.response.errors
                  /\ Len(quotes') = Len(quotes)
                  /\ quotes' = quotes]_vars

C5_Witness ==
    /\ http.handler = "quote"
    /\ "delivery_location" \notin DOMAIN http.req
    /\ http.response.errors = {"delivery_location"}
    /\ ~http.response.success

\* C8: every malformed newsletter body (no JSON, undecodable bytes, JSON that
\* is no object) gets the "invalid request format" failure, changes no
\* Newsletter, sends no email, and no exception leaves the handler.
C8_MalformedBodyGeneric ==
    (http.handler = "newsletter" /\ http.req.kind # "object") =>
        /\ http.response.kind = "json"
        /\ ~http.response.success
        /\ http.response.message = "invalid_format"
        /\ ~http.saved
        /\ Sends(http.events) = 0

\* the position of the first `e` in a sequence of events, 0 when absent
FirstAt(events, e) ==
    IF \E i \in 1..Len(events) : events[i] = e
    THEN CHOOSE i \in 1..Len(events) : events[i] = e /\ \A j \in 1..(i - 1) : events[j] # e
    ELSE 0

\* C9: a request attempts exactly one email send if and only if it stored a
\* record (a repeat newsletter signup included), the send comes after the
\* store, and a request that fails validation or whose save fails attempts
\* none.
C9_OneSendAfterStore ==
    [][(http.handler = "none" /\ http'.handler # "none") =>
          /\ Sends(http'.events) = (IF http'.saved THEN 1 ELSE 0)
          /\ (contacts' # contacts \/ quotes' # quotes \/ newsletters' # newsletters)
                => http'.saved
          /\ http'.saved =>
                /\ FirstAt(http'.events, "save") > 0
                /\ FirstAt(http'.events, "save") < FirstAt(http'.events, "send")
                /\ http'.handler = "contact" => Len(contacts') = Len(contacts) + 1
                /\ http'.handler = "quote" => Len(quotes') = Len(quotes) + 1
                /\ http'.handler = "newsletter" =>
                      \E i \in DOMAIN newsletters' :
                          newsletters'[i].email = Strip(http'.req.data["email"].v)
          /\ (http'.errors # {} \/ http'.db = "failed") => Sends(http'.events) = 0]_vars

\* a repeat newsletter signup that changed nothing in the table was mailed
C9_Witness ==
    /\ http.handler = "newsletter"
    /\ http.saved
    /\ ~http.created
    /\ http.prior # << >>
    /\ http.prior[1].is_active
    /\ http.prior[1].interests = AskedInterests(http.req.data)
    /\ http.events = <<"save", "send">>

\* the words of a text, counted at their first characters
WordCount(s) ==
    Cardinality({i \in 1..Len(s) : ~IsSpace(s[i]) /\ (i = 1 \/ IsSpace(s[i - 1]))})

SentMessage(req) == IF "message" \in DOMAIN req THEN req["message"] ELSE Empty

\* C10: a contact submission whose message has fewer than 3 words or fewer
\* than 10 characters is refused with an error on the message field and
\* creates no ContactMessage, even when every other field is valid.
C10_ShortMessageRejected ==
    [][(/\ Handled("contact")
        /\ \/ WordCount(SentMessage(http'.req)) < 3
           \/ Len(SentMessage(http'.req)) < 10) =>
          /\ "message" \in http'.response.errors
          /\ http'.response.has_errors
          /\ ~http'.response.success
          /\ contacts' = contacts]_vars

\* ten characters and more, but two words, in an otherwise valid form
C10_Witness ==
    /\ http.handler = "contact"
    /\ http.errors = {"message"}
    /\ WordCount(SentMessage(http.req)) = 2
    /\ Len(Strip(SentMessage(http.req))) >= 10
    /\ contacts = << >>
\* the phone pattern in words: an optional "+", an optional "1", then 9 to 15
\* digits and nothing else
PhonePattern(s) ==
    \E plus \in {0, 1}, one \in {0, 1} :
        /\ Len(s) - plus - one >= 9
        /\ Len(s) - plus - one <= 15
        /\ plus = 1 => s[1] = "+"
        /\ one = 1 => s[plus + 1] = "1"
        /\ \A i \in (plus + one + 1)..Len(s) : s[i] \in Digit

\* the phone text of a contact submission, without the white space around it
\* (the form field strips it before validating)
PhoneText(req) == Strip(req["phone"])

\* C11 as stated, on the phone as submitted: it is accepted if and only if it
\* is empty or consists of an optional "+", an optional "1" and 9 to 15 digits
C11_PhoneAsSubmitted ==
    http.handler = "contact_form" =>
        (("phone" \notin http.errors) <=>
            (http.req["phone"] = Empty \/ PhonePattern(http.req["phone"])))

\* C11, amended: once the white space around it is stripped, the contact form
\* accepts a phone if and only if it is empty or consists of an optional "+",
\* an optional "1" and 9 to 15 digits; the 17-character limit rejects no such
\* phone
C11_PhoneValidation ==
    http.handler = "contact_form" =>
        (("phone" \notin http.errors) <=>
            (PhoneText(http.req) = Empty \/ PhonePattern(PhoneText(http.req))))

\* the longest phone of the pattern, "+1" and 15 digits, has been accepted
C11_Witness ==
    /\ http.handler = "contact_form"
    /\ Len(PhoneText(http.req)) = 17
    /\ PhonePattern(PhoneText(http.req))
    /\ http.errors = {}

\* C12: a quote request whose phone is not an optional "+", an optional "1"
\* and 9 to 15 digits is rejected with an error on the phone field, and no
\* QuoteRequest is stored
C12_QuotePhoneRule ==
    (/\ http.handler = "quote"
     /\ ~PhonePattern(Strip(Get(http.req, "phone")))) =>
        /\ "phone" \in http.response.errors
        /\ ~http.saved
        /\ quotes = << >>


\* floor(x * 10^k) for a Decimal result x = [coef, exp]
RECURSIVE Scaled(_, _)
Scaled(x, k) ==
    IF x.exp + k >= 0
    THEN LET RECURSIVE Val(_, _)
             Val(digits, zeros) ==
                 IF zeros > 0 THEN 10 * Val(digits, zeros - 1)
                 ELSE IF digits = << >> THEN 0
                 ELSE 10 * Val(SubSeq(digits, 1, Len(digits) - 1), 0)
                      + digits[Len(digits)]
         IN  Val(x.coef, x.exp + k)
    ELSE IF x.coef = << >> THEN 0
    ELSE Scaled([coef |-> SubSeq(x.coef, 1, Len(x.coef) - 1), exp |-> x.exp + 1], k)

\* the PlantingRecord whose yield_efficiency was read
ReadRow == plantings[ledgerResult.id]

\* C13: yield_efficiency is null when actual_yield_kg is unset; when both
\* yields are present it is actual / expected * 100 (compared here to four
\* decimal places, and exactly where the quotient is a whole number); it is
\* exactly 100 when the two yields are equal
C13_YieldEfficiency ==
    ledgerResult.op = "yield_efficiency" =>
        LET a == ReadRow.actual_yield_kg
            e == ReadRow.expected_yield_kg
            r == ledgerResult.value
        IN  /\ e > 0
            /\ a = << >> => r = << >>
            /\ a # << >> =>
                  /\ r # << >>
                  /\ Scaled(r[1], 4) = (a[1] * 100 * 10000) \div e
                  /\ (a[1] * 100) % e = 0 =>
                        r[1] = Normalize([coef |-> IntDigits((a[1] * 100) \div e), exp |-> 0])
                  /\ a[1] = e => r[1] = [coef |-> <<1>>, exp |-> 2]

\* an efficiency of exactly 100 has been read where the quotient 7 / 7 is
\* taken, and a null one for a record without actual_yield_kg
C13_Witness ==
    /\ ledgerResult.op = "yield_efficiency"
    /\ ReadRow.actual_yield_kg = <<7>>
    /\ ReadRow.expected_yield_kg = 7
    /\ ledgerResult.value = <<[coef |-> <<1>>, exp |-> 2]>>

\* the Inventory row whose status was shown
ShownRow == inventory[stockResult.id]

\* C14: is_low_stock is true if and only if quantity_kg is below 50 kg (true
\* at 49.99, false at 50.00 and 50.01), and the badge reads "Low Stock"
\* exactly when is_low_stock is true
C14_LowStock ==
    stockResult.op = "stock_status" =>
        /\ stockResult.is_low_stock <=> ShownRow.quantity_kg <= 4999
        /\ (stockResult.badge = "Low Stock") <=> stockResult.is_low_stock
        /\ ShownRow.quantity_kg = 4999 => stockResult.is_low_stock
        /\ ShownRow.quantity_kg \in {5000, 5001} => ~stockResult.is_low_stock

\* a row of exactly 50.00 kg has been shown, with a badge that is not "Low Stock"
C14_Witness ==
    /\ stockResult.op = "stock_status"
    /\ ShownRow.quantity_kg = 5000
    /\ stockResult.badge = "Good"

\* no two stored Sales have the same invoice_number
DistinctInvoices(tbl) ==
    \A i, j \in DOMAIN tbl : i # j => tbl[i].invoice_number # tbl[j].invoice_number

\* the stored Sales that hold the number `n`
Holding(tbl, n) == {i \in DOMAIN tbl : tbl[i].invoice_number = n}

\* C15: when two concurrent saves insert, an insert of a number that a stored
\* Sale already holds fails and writes nothing, any other insert adds one
\* row; two workers that computed the same number are never both saved, and
\* the stored Sales never contain the same invoice_number twice
C15_ConcurrentSaves ==
    [][/\ DistinctInvoices(sales')
       /\ \A w \in SaleWorkers :
             (savers[w].pc = "computed" /\ savers'[w].pc # "computed") =>
                IF Holding(sales, savers[w].number) # {}
                THEN savers'[w].pc = "failed" /\ sales' = sales
                ELSE /\ savers'[w].pc = "saved"
                     /\ Cardinality(Holding(sales', savers[w].number)) = 1
       /\ \A v, w \in SaleWorkers :
             (v # w /\ savers'[v].number = savers'[w].number) =>
                ~(savers'[v].pc = "saved" /\ savers'[w].pc = "saved")]_vars

\* both workers computed the same number; one insert succeeded and the other
\* failed on the uniqueness constraint
C15_Witness ==
    /\ savers["w1"].pc = "saved"
    /\ savers["w2"].pc = "failed"
    /\ savers["w1"].number = savers["w2"].number
    /\ saleResult.outcome = "IntegrityError"
    /\ Cardinality(Holding(sales, savers["w1"].number)) = 1

\* the cleaned submission of worker `w`
Signed(w) == NewsletterCleaned(signups[w].body.data)

\* both requests are answered, both were valid and both gave the same email
\* (no Newsletter was stored before them)
SameEmailAnswered ==
    /\ \A w \in SignupWorkers :
          /\ signups[w].pc = "done"
          /\ NewsletterFormErrors(signups[w].body.data) = {}
    /\ Signed("r1").email = Signed("r2").email

\* C16: after two concurrent valid signups for the same new email, there is
\* exactly one Newsletter for it, active, with the interests of one of the
\* two requests, and both requests got a success response
C16_ConcurrentSignups ==
    SameEmailAnswered =>
        LET rows == NewsletterLookup(newsletters, Signed("r1").email)
        IN  /\ Cardinality(rows) = 1
            /\ \A i \in rows :
                  /\ newsletters[i].is_active
                  /\ newsletters[i].interests \in {Signed("r1").interests,
                                                    Signed("r2").interests}
            /\ \A w \in SignupWorkers : signups[w].response.success

\* both requests missed the row, one INSERT met the unique index, and the
\* two requests, with different interests, are both answered
C16_Witness ==
    /\ SameEmailAnswered
    /\ signups["r2"].conflict
    /\ Signed("r1").interests # Signed("r2").interests
    /\ signups["r1"].response.message = "subscribed"
    /\ signups["r2"].response.message = "updated"

\* the responses that report a validation failure to the user: field errors,
\* or a body that is not a JSON document
ValidationFailure(response) ==
    response.message \in {"correct_errors", "invalid_email", "invalid_format"}

\* C17: every email send failure and every persistence failure in the three
\* handlers leaves a log entry; a failed request without a log entry is a
\* validation failure
C17_FailuresLogged ==
    http.handler \in {"contact", "quote", "newsletter"} =>
        /\ http.mail \in {"failed", "raised"} => http.logs # << >>
        /\ http.db = "failed" => http.logs # << >>
        /\ (~http.response.success /\ http.logs = << >>) =>
              ValidationFailure(http.response)

\* C18: when the store fails while a valid submission is saved, the handler
\* answers with its generic failure response (the form rendered again with an
\* error message, or a JSON failure without field errors), no record is
\* created or changed, no email is sent, and the handler returns a response
C18_StoreFailureHandled ==
    [][(http.handler = "none" /\ http'.db = "failed") =>
          /\ http'.errors = {}
          /\ ~http'.response.success
          /\ ~http'.response.has_errors
          /\ http'.response.message = "error_processing"
          /\ http'.response.kind = (IF http'.handler = "contact" THEN "render" ELSE "json")
          /\ contacts' = contacts
          /\ quotes' = quotes
          /\ newsletters' = newsletters
          /\ nextNewsletterId' = nextNewsletterId
          /\ Sends(http'.events) = 0
          /\ http'.mail = "none"]_vars

\* the store failed while a signup for a stored email was being updated, and
\* the stored row is as it was
C18_Witness ==
    /\ http.handler = "newsletter"
    /\ http.db = "failed"
    /\ http.prior # << >>
    /\ \E i \in DOMAIN newsletters : newsletters[i] = http.prior[1]
    /\ http.prior[1].interests # AskedInterests(http.req.data)
    /\ http.response.message = "error_processing"

\* the sequence number n of the invoice text "INV-n", among the first `max`
SeqOf(text, max) == CHOOSE n \in 1..max : InvoiceText(n) = text

\* the stored Sale with the greatest id
Newest(tbl) == CHOOSE i \in DOMAIN tbl : \A j \in DOMAIN tbl : j <= i

\* this step stores a new Sale, under the id nextSaleId
StepCreates == nextSaleId' = nextSaleId + 1

\* a save of a new Sale stores it, and its number is one more than that of
\* the stored Sale with the greatest id, and 1 when no Sale is stored
NextNumberRule ==
    /\ saleResult'.op = "create" => saleResult'.outcome = "saved"
    /\ StepCreates =>
        sales'[nextSaleId].invoice_number =
            InvoiceText(IF DOMAIN sales = {} THEN 1
                        ELSE SeqOf(sales[Newest(sales)].invoice_number, nextSaleId) + 1)

\* deleting a Sale other than the most recent one leaves the number the next
\* Sale will follow as it was
OtherDeleteKeepsNext ==
    (saleResult'.op = "delete" /\ saleResult'.id # Newest(sales)) =>
        /\ Newest(sales') = Newest(sales)
        /\ sales'[Newest(sales')].invoice_number = sales[Newest(sales)].invoice_number

\* the step stores a new Sale right after the most recent Sale was deleted
CreatesAfterNewestDeleted ==
    /\ StepCreates
    /\ saleResult.op = "delete"
    /\ \A i \in DOMAIN sales : i < saleResult.id

\* C19 as stated: the number rule, distinct stored numbers, the deletion of
\* another Sale changing nothing, and the number of a deleted most recent
\* Sale going to the next Sale
C19_DeletedNumberReissued ==
    [][/\ NextNumberRule
       /\ DistinctInvoices(sales')
       /\ OtherDeleteKeepsNext
       /\ CreatesAfterNewestDeleted =>
             sales'[nextSaleId].invoice_number = issued[saleResult.id]]_vars

\* C19, amended: the number rule, distinct stored numbers, the deletion of
\* another Sale changing nothing; after the most recent Sale is deleted the
\* next Sale gets a number issued before, which is the deleted Sale's number
\* exactly when the Sale that is then the most recent holds the number just
\* below it (or none is left and the deleted number was 1)
C19_InvoiceNumbering ==
    [][/\ NextNumberRule
       /\ DistinctInvoices(sales')
       /\ OtherDeleteKeepsNext
       /\ CreatesAfterNewestDeleted =>
             LET new == sales'[nextSaleId].invoice_number
                 gone == issued[saleResult.id]
             IN  /\ \E k \in 1..Len(issued) : issued[k] = new
                 /\ new = gone <=>
                       IF DOMAIN sales = {} THEN gone = InvoiceText(1)
                       ELSE SeqOf(sales[Newest(sales)].invoice_number, nextSaleId) + 1
                            = SeqOf(gone, nextSaleId)]_vars

\* three Sales were created, the second and then the third deleted, and the
\* fourth Sale got INV-00002, not the INV-00003 of the Sale deleted last
C19_Witness ==
    /\ DOMAIN sales = {1, 4}
    /\ saleResult.op = "create"
    /\ Len(issued) = 4
    /\ issued[3] = InvoiceText(3)
    /\ sales[4].invoice_number = InvoiceText(2)

====
